---------------------------- MODULE Spec2Model ----------------------------
(***************************************************************************)
(* The task progression of src/game.js: the frame loop (animate), the      *)
(* proximity check of the current task (checkCurrentTaskCompletion), its   *)
(* effects (spawnCrystal, updateTaskUI) and the events that interleave     *)
(* with frames (key down/up, the asset callbacks, loadingManager.onLoad).  *)
(*                                                                         *)
(* Lengths are integers in hundredths of a world unit, so that 16.5, 1.75  *)
(* and the radius 3.0 are exact; angles are in hundredths of a radian.     *)
(* distanceTo(..) < completionRadius is compared on the squares.           *)
(* JavaScript runs every handler to completion: an event handler runs only *)
(* between frames (pc = "idle"); the three steps of one frame follow each  *)
(* other with nothing in between.                                          *)
(***************************************************************************)
EXTENDS Integers, FiniteSets

VARIABLES
    currentTask,      \* game.js:22
    hasCrystal,       \* game.js:23
    playerPos,        \* playerObjectContainer.position
    keyboardState,    \* the key codes whose keyboardState entry is true
    shrineColor,      \* shrineTarget.material.color
    shrineWireframe,  \* shrineTarget.material.wireframe
    crystalObject,    \* TRUE iff crystalObject is non-null
    crystalInScene,   \* crystalObject.parent === scene
    crystalPos,       \* crystalObject.position
    crystalRotY,      \* crystalObject.rotation.y
    elderColor,       \* elderPlaceholder.material.color
    uiText,           \* textContent of #game-info p
    sinkAvailable,    \* document.getElementById('game-info') is an element
    assetState,       \* dragon.glb: "pending", "model" or "fallback"
    loaded,           \* loadingManager.onLoad has run
    pc,               \* "animate", "check", "render": inside a frame; "idle"
    frameRequested,   \* requestAnimationFrame(animate) is pending
    threw,            \* the handler that ran last ended by an uncaught TypeError
    prevTask          \* currentTask as the last check found it

vars == <<currentTask, hasCrystal, playerPos, keyboardState, shrineColor,
          shrineWireframe, crystalObject, crystalInScene, crystalPos,
          crystalRotY, elderColor, uiText, sinkAvailable, assetState, loaded,
          pc, frameRequested, threw, prevTask>>

-----------------------------------------------------------------------------
(* Program constants *)

completionRadius == 300
groundLevel == 10
SpinStep == 2

ShrineYellow == 16776960
ShrineGreen == 65280
ElderGrey == 8421504
ElderLightGrey == 10526880

PlayerStart == <<0, 100, 0>>
ShrinePos == <<1500, 500, 2000>>
ElderPos == <<-1500, 175, -1200>>
Origin == <<0, 0, 0>>

TextLoading == "Loading assets..."
TextTask1 == "Task 1: Fly to the Ancient Shrine (Yellow Orb)"
TextTask2 == "Task 2: Collect the Sacred Crystal (Blue Crystal)"
TextTask3 == "Task 3: Deliver the Crystal to the Elder (Grey Capsule) at the Village (Green Platform)"
TextTask3Missing == "Task 3: Find the Elder... (Missing Crystal)"
TextComplete == "All Tasks Complete! The tribe is safe for now."
TextNone == "No current task."

Keys == {"KeyW", "KeyS", "KeyE", "KeyQ"}

-----------------------------------------------------------------------------
(* Bounds of the model *)

\* The crystal's rotation.y grows without bound; checks stop at MaxSpin.
MaxSpin == 8

\* The positions the player is placed at: the start, each target, and points
\* at distance exactly 3.00, 2.99 and 3.01 of the targets (along an axis and
\* on a diagonal: 200^2 + 200^2 + 100^2 = 300^2).
PlayerPositions ==
    { PlayerStart,
      ShrinePos, <<1799, 500, 2000>>, <<1800, 500, 2000>>, <<1801, 500, 2000>>,
      <<1700, 700, 2100>>, <<1700, 700, 2099>>,
      <<1250, 600, 2000>>,
      <<1650, 400, 2000>>, <<1650, 400, 2299>>, <<1650, 400, 2300>>,
      ElderPos, <<-1500, 474, -1200>>, <<-1500, 475, -1200>> }

-----------------------------------------------------------------------------
(* Pure helpers *)

\* Vector3.distanceTo, squared.
Dist2(p, q) ==
    (p[1] - q[1]) * (p[1] - q[1]) + (p[2] - q[2]) * (p[2] - q[2])
        + (p[3] - q[3]) * (p[3] - q[3])

WithinRadius_Inclusive(p, q) == Dist2(p, q) <= completionRadius * completionRadius

\* playerPos.distanceTo(target.position) < completionRadius
WithinRadius(p, q) == Dist2(p, q) < completionRadius * completionRadius

\* The string updateTaskUI writes for a task state.
TaskText(task, crystal) ==
    CASE task = 1 -> TextTask1
      [] task = 2 -> TextTask2
      [] task = 3 -> IF crystal THEN TextTask3 ELSE TextTask3Missing
      [] task = 4 -> TextComplete
      [] OTHER -> TextNone

\* updatePlayer over one frame, for any deltaTime >= 0 and any heading (the
\* heading, turned by KeyA/KeyD, is not tracked): W or S alone moves the
\* player in the horizontal plane, both cancel; E raises, Q lowers down to
\* groundLevel, both cancel.
CanMove(p, q, keys) ==
    /\ ((("KeyW" \in keys) = ("KeyS" \in keys)) => (q[1] = p[1] /\ q[3] = p[3]))
    /\ CASE "KeyE" \in keys /\ "KeyQ" \notin keys -> q[2] >= p[2]
         [] "KeyE" \notin keys /\ "KeyQ" \in keys ->
                /\ q[2] >= groundLevel
                /\ q[2] <= (IF p[2] > groundLevel THEN p[2] ELSE groundLevel)
         [] OTHER -> q[2] = p[2]


-----------------------------------------------------------------------------
(* The state at the end of init(), where it calls animate() (game.js:121) *)

Init ==
    /\ currentTask = 1
    /\ hasCrystal = FALSE
    /\ playerPos = PlayerStart
    /\ keyboardState = {}
    /\ shrineColor = ShrineYellow
    /\ shrineWireframe = TRUE
    /\ crystalObject = TRUE
    /\ crystalInScene = FALSE
    /\ crystalPos = Origin
    /\ crystalRotY = 0
    /\ elderColor = ElderGrey
    /\ uiText = TextLoading
    /\ sinkAvailable = TRUE
    /\ assetState = "pending"
    /\ loaded = FALSE
    /\ pc = "animate"
    /\ frameRequested = FALSE
    /\ threw = FALSE
    /\ prevTask = 1

-----------------------------------------------------------------------------
(* Effects *)

\* x += 15 instead of x += 1.5.
SpawnedPos_Far == <<ShrinePos[1] + 1500, ShrinePos[2] - 100, ShrinePos[3]>>

SpawnedPos_WrongSign == <<ShrinePos[1] + 150, ShrinePos[2] + 100, ShrinePos[3]>>

\* Where spawnCrystal puts the crystal: the shrine's position, y - 1.0, x + 1.5.
SpawnedPos == <<ShrinePos[1] + 150, ShrinePos[2] - 100, ShrinePos[3]>>

\* scene.add(crystalObject) forgotten.
spawnCrystal_NoAdd ==
    IF ~crystalObject \/ crystalInScene
    THEN UNCHANGED <<crystalInScene, crystalPos>>
    ELSE crystalPos' = SpawnedPos /\ UNCHANGED crystalInScene

\* spawnCrystal: nothing when the crystal is null or already in the scene.
spawnCrystal ==
    IF ~crystalObject \/ crystalInScene
    THEN UNCHANGED <<crystalInScene, crystalPos>>
    ELSE crystalPos' = SpawnedPos /\ crystalInScene' = TRUE

\* updateTaskUI, called with the task state as just assigned. Without the
\* element, getElementById(..).querySelector throws a TypeError that nothing
\* in game.js catches: the text stays and the calling handler is abandoned.
updateTaskUI(task, crystal) ==
    /\ uiText' = IF sinkAvailable THEN TaskText(task, crystal) ELSE uiText
    /\ threw' = ~sinkAvailable

NoTransition_RefreshesUI ==
    /\ UNCHANGED <<currentTask, hasCrystal, shrineColor, shrineWireframe,
                   crystalInScene, crystalPos, elderColor>>
    /\ updateTaskUI(currentTask, hasCrystal)

\* A case whose guard is false, or no case at all: nothing is assigned.
NoTransition ==
    /\ UNCHANGED <<currentTask, hasCrystal, shrineColor, shrineWireframe,
                   crystalInScene, crystalPos, elderColor, uiText>>
    /\ threw' = FALSE

\* case 1 without its break: case 2 runs in the same call, on the crystal
\* case 1 has just spawned.
Case1_FallsThrough ==
    /\ currentTask = 1
    /\ IF WithinRadius(playerPos, ShrinePos)
       THEN /\ shrineColor' = ShrineGreen
            /\ shrineWireframe' = FALSE
            /\ crystalPos' = (IF ~crystalObject \/ crystalInScene
                              THEN crystalPos ELSE SpawnedPos)
            /\ UNCHANGED elderColor
            /\ IF crystalObject /\ sinkAvailable
                  /\ WithinRadius(playerPos, crystalPos')
               THEN /\ currentTask' = 3
                    /\ hasCrystal' = TRUE
                    /\ crystalInScene' = FALSE
                    /\ updateTaskUI(3, TRUE)
               ELSE /\ currentTask' = 2
                    /\ crystalInScene' = crystalObject
                    /\ UNCHANGED hasCrystal
                    /\ updateTaskUI(2, hasCrystal)
       ELSE NoTransition

\* wireframe = !wireframe instead of wireframe = false.
Effects1_TogglesWireframe ==
    /\ currentTask' = 2
    /\ shrineColor' = ShrineGreen
    /\ shrineWireframe' = ~shrineWireframe
    /\ spawnCrystal
    /\ updateTaskUI(2, hasCrystal)
    /\ UNCHANGED <<hasCrystal, elderColor>>

\* The body of case 1's if (game.js:206-214).
Effects1 ==
    /\ currentTask' = 2
    /\ shrineColor' = ShrineGreen
    /\ shrineWireframe' = FALSE
    /\ spawnCrystal
    /\ updateTaskUI(2, hasCrystal)
    /\ UNCHANGED <<hasCrystal, elderColor>>

\* case 1 (game.js:204-216)
Case1 ==
    /\ currentTask = 1
    /\ IF WithinRadius(playerPos, ShrinePos)
       THEN Effects1
       ELSE NoTransition

\* updateTaskUI called first in the body: a throw leaves the transition undone.
Case2_UIFirst ==
    /\ currentTask = 2
    /\ IF crystalObject /\ crystalInScene /\ WithinRadius(playerPos, crystalPos)
       THEN /\ updateTaskUI(2, hasCrystal)
            /\ currentTask' = (IF sinkAvailable THEN 3 ELSE 2)
            /\ hasCrystal' = sinkAvailable
            /\ crystalInScene' = ~sinkAvailable
            /\ UNCHANGED <<shrineColor, shrineWireframe, crystalPos, elderColor>>
       ELSE NoTransition

\* updateTaskUI called between currentTask = 3 and hasCrystal = true.
Case2_UIBeforeInventory ==
    /\ currentTask = 2
    /\ IF crystalObject /\ crystalInScene /\ WithinRadius(playerPos, crystalPos)
       THEN /\ currentTask' = 3
            /\ updateTaskUI(3, hasCrystal)
            /\ hasCrystal' = sinkAvailable
            /\ crystalInScene' = ~sinkAvailable
            /\ UNCHANGED <<shrineColor, shrineWireframe, crystalPos, elderColor>>
       ELSE NoTransition

\* scene.remove(crystalObject) forgotten.
Case2_NoRemove ==
    /\ currentTask = 2
    /\ IF crystalObject /\ crystalInScene /\ WithinRadius(playerPos, crystalPos)
       THEN /\ currentTask' = 3
            /\ hasCrystal' = TRUE
            /\ updateTaskUI(3, TRUE)
            /\ UNCHANGED <<shrineColor, shrineWireframe, crystalInScene,
                           crystalPos, elderColor>>
       ELSE NoTransition

Case2_NoSceneCheck ==
    /\ currentTask = 2
    /\ IF crystalObject /\ WithinRadius(playerPos, crystalPos)
       THEN /\ currentTask' = 3
            /\ hasCrystal' = TRUE
            /\ crystalInScene' = FALSE
            /\ updateTaskUI(3, TRUE)
            /\ UNCHANGED <<shrineColor, shrineWireframe, crystalPos, elderColor>>
       ELSE NoTransition

\* The body of case 2's if (game.js:221-226).
Effects2 ==
    /\ currentTask' = 3
    /\ hasCrystal' = TRUE
    /\ crystalInScene' = FALSE
    /\ updateTaskUI(3, TRUE)
    /\ UNCHANGED <<shrineColor, shrineWireframe, crystalPos, elderColor>>

\* case 2 (game.js:218-228)
Case2 ==
    /\ currentTask = 2
    /\ IF crystalObject /\ crystalInScene /\ WithinRadius(playerPos, crystalPos)
       THEN Effects2
       ELSE NoTransition

Case3_KeepsCrystal ==
    /\ currentTask = 3
    /\ IF hasCrystal /\ WithinRadius(playerPos, ElderPos)
       THEN /\ currentTask' = 4
            /\ elderColor' = ElderLightGrey
            /\ updateTaskUI(4, hasCrystal)
            /\ UNCHANGED <<hasCrystal, shrineColor, shrineWireframe,
                           crystalInScene, crystalPos>>
       ELSE NoTransition

Case3_NoCrystalCheck ==
    /\ currentTask = 3
    /\ IF WithinRadius(playerPos, ElderPos)
       THEN /\ currentTask' = 4
            /\ hasCrystal' = FALSE
            /\ elderColor' = ElderLightGrey
            /\ updateTaskUI(4, FALSE)
            /\ UNCHANGED <<shrineColor, shrineWireframe, crystalInScene, crystalPos>>
       ELSE NoTransition

\* The body of case 3's if (game.js:233-240).
Effects3 ==
    /\ currentTask' = 4
    /\ hasCrystal' = FALSE
    /\ elderColor' = ElderLightGrey
    /\ updateTaskUI(4, FALSE)
    /\ UNCHANGED <<shrineColor, shrineWireframe, crystalInScene, crystalPos>>

\* case 3 (game.js:230-242)
Case3 ==
    /\ currentTask = 3
    /\ IF hasCrystal /\ WithinRadius(playerPos, ElderPos)
       THEN Effects3
       ELSE NoTransition

\* No case of the switch matches (currentTask = 4).
CaseNone ==
    /\ currentTask \notin {1, 2, 3}
    /\ NoTransition

SpinApplies_NoSceneCheck == crystalObject

\* The guard of the spin after the switch (game.js:248), on the scene as the
\* switch left it.
SpinApplies == crystalObject /\ crystalInScene'

-----------------------------------------------------------------------------
(* The frame: animate() in three steps *)

\* game.js:256-261: request the next frame, updatePlayer, updateCamera (the
\* camera feeds nothing back and is not part of the state). The first call
\* is init's own; every later one is the requested frame firing.
AnimateUpdate ==
    /\ IF pc = "idle" THEN frameRequested ELSE pc = "animate"
    /\ frameRequested' = TRUE
    /\ \E q \in PlayerPositions :
          /\ CanMove(playerPos, q, keyboardState)
          /\ playerPos' = q
    /\ threw' = FALSE
    /\ pc' = "check"
    /\ UNCHANGED <<currentTask, hasCrystal, keyboardState, shrineColor,
                   shrineWireframe, crystalObject, crystalInScene, crystalPos,
                   crystalRotY, elderColor, uiText, sinkAvailable, assetState,
                   loaded, prevTask>>

\* animate calling updatePlayer after checkCurrentTaskCompletion: the check
\* sees the position of the frame before.
checkCurrentTaskCompletion_ThenMoves ==
    /\ pc = "check"
    /\ prevTask' = currentTask
    /\ \/ Case1
       \/ Case2
       \/ Case3
       \/ CaseNone
    /\ crystalRotY' = IF ~threw' /\ SpinApplies
                      THEN crystalRotY + SpinStep ELSE crystalRotY
    /\ crystalRotY' <= MaxSpin
    /\ pc' = IF threw' THEN "idle" ELSE "render"
    /\ \E q \in PlayerPositions :
          /\ CanMove(playerPos, q, keyboardState)
          /\ playerPos' = q
    /\ UNCHANGED <<keyboardState, crystalObject, sinkAvailable,
                   assetState, loaded, frameRequested>>

\* game.js:198-251. When updateTaskUI throws, the call ends there: the spin
\* and renderer.render are skipped and the frame is over.
checkCurrentTaskCompletion ==
    /\ pc = "check"
    /\ prevTask' = currentTask
    /\ \/ Case1
       \/ Case2
       \/ Case3
       \/ CaseNone
    /\ crystalRotY' = IF ~threw' /\ SpinApplies
                      THEN crystalRotY + SpinStep ELSE crystalRotY
    /\ crystalRotY' <= MaxSpin
    /\ pc' = IF threw' THEN "idle" ELSE "render"
    /\ UNCHANGED <<playerPos, keyboardState, crystalObject, sinkAvailable,
                   assetState, loaded, frameRequested>>

\* game.js:265
Render ==
    /\ pc = "render"
    /\ pc' = "idle"
    /\ UNCHANGED <<currentTask, hasCrystal, playerPos, keyboardState,
                   shrineColor, shrineWireframe, crystalObject, crystalInScene,
                   crystalPos, crystalRotY, elderColor, uiText, sinkAvailable,
                   assetState, loaded, frameRequested, threw, prevTask>>

-----------------------------------------------------------------------------
(* Events between frames *)

\* game.js:114
KeyDown ==
    /\ pc = "idle"
    /\ \E k \in Keys : keyboardState' = keyboardState \cup {k}
    /\ UNCHANGED <<currentTask, hasCrystal, playerPos, shrineColor,
                   shrineWireframe, crystalObject, crystalInScene, crystalPos,
                   crystalRotY, elderColor, uiText, sinkAvailable, assetState,
                   loaded, pc, frameRequested, threw, prevTask>>

\* game.js:115
KeyUp ==
    /\ pc = "idle"
    /\ \E k \in Keys : keyboardState' = keyboardState \ {k}
    /\ UNCHANGED <<currentTask, hasCrystal, playerPos, shrineColor,
                   shrineWireframe, crystalObject, crystalInScene, crystalPos,
                   crystalRotY, elderColor, uiText, sinkAvailable, assetState,
                   loaded, pc, frameRequested, threw, prevTask>>

\* game.js:58-61: dragon.glb arrived, the model joins the player container.
AssetLoaded ==
    /\ pc = "idle"
    /\ assetState = "pending"
    /\ assetState' = "model"
    /\ UNCHANGED <<currentTask, hasCrystal, playerPos, keyboardState,
                   shrineColor, shrineWireframe, crystalObject, crystalInScene,
                   crystalPos, crystalRotY, elderColor, uiText, sinkAvailable,
                   loaded, pc, frameRequested, threw, prevTask>>

\* game.js:62-69 and 32: dragon.glb failed, the fallback cone joins the
\* player container; loadingManager.onError does nothing.
AssetError ==
    /\ pc = "idle"
    /\ assetState = "pending"
    /\ assetState' = "fallback"
    /\ UNCHANGED <<currentTask, hasCrystal, playerPos, keyboardState,
                   shrineColor, shrineWireframe, crystalObject, crystalInScene,
                   crystalPos, crystalRotY, elderColor, uiText, sinkAvailable,
                   loaded, pc, frameRequested, threw, prevTask>>

\* onLoad starting the game over: currentTask = 1 before updateTaskUI.
OnLoad_ResetsTask ==
    /\ pc = "idle"
    /\ assetState # "pending"
    /\ ~loaded
    /\ loaded' = TRUE
    /\ currentTask' = 1
    /\ hasCrystal' = FALSE
    /\ updateTaskUI(1, FALSE)
    /\ UNCHANGED <<playerPos, keyboardState,
                   shrineColor, shrineWireframe, crystalObject, crystalInScene,
                   crystalPos, crystalRotY, elderColor, sinkAvailable,
                   assetState, pc, frameRequested, prevTask>>

\* onLoad writing the task 1 text, whatever the task.
OnLoad_FixedText ==
    /\ pc = "idle"
    /\ assetState # "pending"
    /\ ~loaded
    /\ loaded' = TRUE
    /\ updateTaskUI(1, FALSE)
    /\ UNCHANGED <<currentTask, hasCrystal, playerPos, keyboardState,
                   shrineColor, shrineWireframe, crystalObject, crystalInScene,
                   crystalPos, crystalRotY, elderColor, sinkAvailable,
                   assetState, pc, frameRequested, prevTask>>

\* game.js:28-31: the manager's onLoad, once its only item has ended.
OnLoad ==
    /\ pc = "idle"
    /\ assetState # "pending"
    /\ ~loaded
    /\ loaded' = TRUE
    /\ updateTaskUI(currentTask, hasCrystal)
    /\ UNCHANGED <<currentTask, hasCrystal, playerPos, keyboardState,
                   shrineColor, shrineWireframe, crystalObject, crystalInScene,
                   crystalPos, crystalRotY, elderColor, sinkAvailable,
                   assetState, pc, frameRequested, prevTask>>

\* game.js:33: loadingManager.onProgress, while the asset is on its way; its
\* body is empty.
OnProgress ==
    /\ pc = "idle"
    /\ assetState = "pending"
    /\ UNCHANGED vars

\* game.js:270-274: onWindowResize sets the camera's aspect and the
\* renderer's size, which are not part of the state.
onWindowResize ==
    /\ pc = "idle"
    /\ UNCHANGED vars

\* The page loses, or gets back, the #game-info element (the environment:
\* nothing in game.js does this).
SinkChanges ==
    /\ pc = "idle"
    /\ sinkAvailable' = ~sinkAvailable
    /\ UNCHANGED <<currentTask, hasCrystal, playerPos, keyboardState,
                   shrineColor, shrineWireframe, crystalObject, crystalInScene,
                   crystalPos, crystalRotY, elderColor, uiText, assetState,
                   loaded, pc, frameRequested, threw, prevTask>>

-----------------------------------------------------------------------------
(* Specifications *)

Next ==
    \/ AnimateUpdate
    \/ checkCurrentTaskCompletion
    \/ Render
    \/ KeyDown
    \/ KeyUp
    \/ AssetLoaded
    \/ AssetError
    \/ OnLoad
    \/ OnProgress
    \/ onWindowResize

\* The game on a page that keeps its #game-info element, as init requires.
Spec == Init /\ [][Next]_vars

NextFault == Next \/ SinkChanges

\* The game on a page whose #game-info element may come and go.
SpecFault == Init /\ [][NextFault]_vars

\* checkCurrentTaskCompletion as a function of the state it reads: a call
\* on any task state, inventory, crystal and player position, also those
\* the game itself never produces.
InitEval ==
    /\ currentTask \in 1..4
    /\ hasCrystal \in BOOLEAN
    /\ playerPos \in PlayerPositions
    /\ keyboardState = {}
    /\ shrineColor = ShrineYellow
    /\ shrineWireframe = TRUE
    /\ crystalObject \in BOOLEAN
    /\ crystalInScene \in {b \in BOOLEAN : b => crystalObject}
    /\ crystalPos \in {Origin, SpawnedPos}
    /\ crystalRotY = 0
    /\ elderColor = ElderGrey
    /\ uiText = TextLoading
    /\ sinkAvailable = TRUE
    /\ assetState = "pending"
    /\ loaded = FALSE
    /\ pc = "check"
    /\ frameRequested = TRUE
    /\ threw = FALSE
    /\ prevTask = currentTask

SpecEval == InitEval /\ [][Next]_vars

\* The effects of one transition applied on their own, whatever the state:
\* the body of one of the three ifs, run without its guard. prevTask is the
\* case whose body ran.
ApplyEffects ==
    /\ pc = "dispatch"
    /\ \/ prevTask' = 1 /\ Effects1
       \/ prevTask' = 2 /\ Effects2
       \/ prevTask' = 3 /\ Effects3
    /\ UNCHANGED <<playerPos, keyboardState, crystalObject, crystalRotY,
                   sinkAvailable, assetState, loaded, pc, frameRequested>>

\* Any world the effects can be applied to; prevTask = 0: none applied yet.
InitReplay ==
    /\ currentTask \in 1..4
    /\ hasCrystal \in BOOLEAN
    /\ playerPos = PlayerStart
    /\ keyboardState = {}
    /\ shrineColor \in {ShrineYellow, ShrineGreen}
    /\ shrineWireframe \in BOOLEAN
    /\ crystalObject \in BOOLEAN
    /\ crystalInScene \in {b \in BOOLEAN : b => crystalObject}
    /\ crystalPos \in {Origin, SpawnedPos}
    /\ crystalRotY = 0
    /\ elderColor \in {ElderGrey, ElderLightGrey}
    /\ uiText \in {TextLoading, TextTask1, TextTask2, TextTask3, TextComplete}
    /\ sinkAvailable \in BOOLEAN
    /\ assetState = "pending"
    /\ loaded = FALSE
    /\ pc = "dispatch"
    /\ frameRequested = TRUE
    /\ threw = FALSE
    /\ prevTask = 0

\* The effects of the transitions applied again and again, in any order.
SpecReplay == InitReplay /\ [][ApplyEffects]_vars

\* The game with every started frame running on: animate runs to its end
\* once it is called, so a check that is due is made.
SpecLive == Spec /\ WF_vars(checkCurrentTaskCompletion)

-----------------------------------------------------------------------------
(* Properties *)

\* The inventory, the objects' visibility, position and appearance, and the
\* text: what a transition may touch besides currentTask.
world == <<hasCrystal, shrineColor, shrineWireframe, crystalInScene,
           crystalPos, elderColor, uiText>>

\* The guard of the current task as the specification's transition table
\* states it (section 4.1), on the state a check starts from.
TableGuard ==
    CASE currentTask = 1 -> Dist2(playerPos, ShrinePos) < 300 * 300
      [] currentTask = 2 ->
            crystalInScene /\ Dist2(playerPos, crystalPos) < 300 * 300
      [] currentTask = 3 ->
            hasCrystal /\ Dist2(playerPos, ElderPos) < 300 * 300
      [] OTHER -> FALSE

\* C1: in every reachable state, hasCrystal implies currentTask = 3.
C1_CrystalOnlyWhileDelivering == hasCrystal => currentTask = 3

\* C1 witness: the crystal has been picked up.
C1_Witness == hasCrystal /\ currentTask = 3 /\ prevTask = 2 /\ pc = "render"

\* C2: currentTask starts at 1, stays in 1..4, and every step (a check
\* included) leaves it unchanged or raises it by exactly one.
C2_OneStepForward ==
    /\ currentTask = 1
    /\ [](currentTask \in 1..4)
    /\ [][currentTask' = currentTask \/ currentTask' = currentTask + 1]_vars

\* C2 witness: a check has moved the task from 1 to 2.
C2_Witness == pc = "render" /\ prevTask = 1 /\ currentTask = 2

\* C3: in tasks 1, 2 and 3 a check makes a transition only at a distance
\* strictly below 3.0 of the task's target, and always does so there when
\* the other conjuncts of the guard hold.
C3_StrictRadius ==
    [][(pc = "check" /\ currentTask \in 1..3) =>
          LET target == CASE currentTask = 1 -> ShrinePos
                          [] currentTask = 2 -> crystalPos
                          [] currentTask = 3 -> ElderPos
              others == CASE currentTask = 1 -> TRUE
                          [] currentTask = 2 -> crystalObject /\ crystalInScene
                          [] currentTask = 3 -> hasCrystal
              near == Dist2(playerPos, target) < 300 * 300
          IN /\ (currentTask' # currentTask => near)
             /\ (near /\ others => currentTask' = currentTask + 1)]_vars

\* C3 witness: a check in task 1 at distance exactly 3.0 of the shrine, on
\* the diagonal, has made no transition.
C3_Witness ==
    /\ pc = "render" /\ prevTask = 1 /\ currentTask = 1
    /\ playerPos = <<1700, 700, 2100>>

\* C4: a check in task 1 with the player at (15,5,20) moves to task 2, puts
\* the crystal in the scene at (16.5,4,20), makes the shrine solid green and
\* sets the task 2 text; hasCrystal stays false.
C4_ShrineReached ==
    [][(pc = "check" /\ currentTask = 1 /\ playerPos = <<1500, 500, 2000>>) =>
          /\ currentTask' = 2
          /\ crystalInScene'
          /\ crystalPos' = <<1650, 400, 2000>>
          /\ shrineColor' = 65280
          /\ ~shrineWireframe'
          /\ uiText' = "Task 2: Collect the Sacred Crystal (Blue Crystal)"
          /\ ~hasCrystal']_vars

\* C4 witness: the check at the shrine's position has acted.
C4_Witness ==
    /\ pc = "render" /\ prevTask = 1 /\ currentTask = 2
    /\ playerPos = <<1500, 500, 2000>>

\* C5: in task 2 with the crystal null or out of the scene, a check at any
\* player position changes nothing and raises no error.
C5_HiddenCrystalNoTransition ==
    [][(pc = "check" /\ currentTask = 2 /\ ~(crystalObject /\ crystalInScene)) =>
          /\ currentTask' = 2
          /\ UNCHANGED world
          /\ UNCHANGED <<crystalObject, crystalRotY>>
          /\ ~threw'
          /\ pc' = "render"]_vars

\* C5 witness: a check in task 2 has run with the crystal hidden and the
\* player within the radius of the crystal's position.
C5_Witness ==
    /\ pc = "render" /\ prevTask = 2 /\ currentTask = 2
    /\ ~crystalInScene
    /\ Dist2(playerPos, crystalPos) < 300 * 300

\* C6: in task 3 without the crystal, a check with the player within the
\* radius of the Elder makes no transition and leaves the Elder's colour and
\* the text as they are.
C6_NoDeliveryWithoutCrystal ==
    [][(pc = "check" /\ currentTask = 3 /\ ~hasCrystal
            /\ Dist2(playerPos, ElderPos) < 300 * 300) =>
          /\ currentTask' = 3
          /\ UNCHANGED <<elderColor, uiText>>]_vars

\* C6 witness: that check has run with the player at the Elder's position.
C6_Witness ==
    /\ pc = "render" /\ prevTask = 3 /\ currentTask = 3
    /\ ~hasCrystal /\ playerPos = ElderPos

\* C7: once currentTask is 4 it stays 4, and a check in task 4 changes
\* nothing of the world and raises no error.
C7_CompleteIsTerminal ==
    [][currentTask = 4 =>
          /\ currentTask' = 4
          /\ (pc = "check" =>
                /\ UNCHANGED world
                /\ UNCHANGED <<crystalObject, crystalRotY>>
                /\ ~threw'
                /\ pc' = "render")]_vars

\* C7 witness: a check has run in task 4.
C7_Witness == pc = "render" /\ prevTask = 4 /\ currentTask = 4

\* C8 as stated: a check whose guard is false leaves the task state, the
\* world (the crystal's orientation included) and the text unchanged.
C8_NoGuardNoEffect ==
    [][(pc = "check" /\ ~TableGuard) =>
          /\ UNCHANGED currentTask
          /\ UNCHANGED world
          /\ UNCHANGED crystalRotY]_vars

\* C8 amended: a check whose guard is false leaves the task state, the world
\* and the text unchanged, except that it turns the crystal by 0.02 rad when
\* the crystal is in the scene (and only then).
C8_NoGuardOnlySpin ==
    [][(pc = "check" /\ ~TableGuard) =>
          /\ UNCHANGED currentTask
          /\ UNCHANGED world
          /\ crystalRotY' = IF crystalInScene THEN crystalRotY + 2
                            ELSE crystalRotY]_vars

\* C8 witness: a check in task 2, away from the crystal, has turned it.
C8_Witness ==
    /\ pc = "render" /\ prevTask = 2 /\ currentTask = 2
    /\ crystalInScene /\ crystalRotY >= 4
    /\ Dist2(playerPos, crystalPos) >= 300 * 300

\* C9: no check has run, and no transition has happened, before
\* loadingManager.onLoad has fired.
C9_ChecksOnlyWhenLoaded == (pc = "render" \/ currentTask # 1) => loaded

\* C10: no handler of the game ends by an exception: a check that makes a
\* transition, or the load callback, with the text element missing still
\* ends normally.
C10_NoExceptionEscapes == ~threw

\* C11: when a guard passes and the text element is missing, currentTask
\* still advances and every effect of the transition other than the text is
\* applied.
C11_TransitionDespiteUIFailure ==
    [][(pc = "check" /\ ~sinkAvailable /\ TableGuard) =>
          /\ currentTask' = currentTask + 1
          /\ CASE currentTask = 1 ->
                    /\ shrineColor' = 65280 /\ ~shrineWireframe'
                    /\ crystalInScene' /\ crystalPos' = <<1650, 400, 2000>>
               [] currentTask = 2 -> hasCrystal' /\ ~crystalInScene'
               [] currentTask = 3 -> ~hasCrystal' /\ elderColor' = 10526880]_vars

\* C11 witness: the crystal was collected by a check whose text update threw.
C11_Witness ==
    /\ threw /\ pc = "idle" /\ ~sinkAvailable
    /\ prevTask = 2 /\ currentTask = 3 /\ hasCrystal /\ ~crystalInScene

\* C12: in every state between steps (so at every render) the shrine is
\* solid green iff currentTask >= 2, the crystal is in the scene iff
\* currentTask = 2, hasCrystal iff currentTask = 3, and the Elder is
\* lighter grey iff currentTask = 4.
C12_FullyAppliedConfigurations ==
    /\ (shrineColor = 65280 /\ ~shrineWireframe) <=> (currentTask >= 2)
    /\ (shrineColor = 16776960 /\ shrineWireframe) <=> (currentTask < 2)
    /\ crystalInScene <=> (currentTask = 2)
    /\ hasCrystal <=> (currentTask = 3)
    /\ (elderColor = 10526880) <=> (currentTask = 4)
    /\ (elderColor = 8421504) <=> (currentTask # 4)

\* C12 witness: the frame that delivered the crystal is about to be rendered.
C12_Witness ==
    /\ pc = "render" /\ prevTask = 3 /\ currentTask = 4
    /\ elderColor = 10526880 /\ ~hasCrystal

\* C13: whenever the text is written (by a transition, or by the load
\* callback), it is the string of the task state as it then is, and the
\* state, the inventory and the objects are already those of that task: the
\* text write comes last in every transition.
C13_TextWrittenLast ==
    [][(uiText' # uiText
          \/ (pc = "check" /\ currentTask' # currentTask /\ sinkAvailable)) =>
          CASE currentTask' = 1 ->
                    /\ uiText' = "Task 1: Fly to the Ancient Shrine (Yellow Orb)"
                    /\ shrineColor' = 16776960 /\ shrineWireframe'
                    /\ ~crystalInScene' /\ ~hasCrystal'
            [] currentTask' = 2 ->
                    /\ uiText' = "Task 2: Collect the Sacred Crystal (Blue Crystal)"
                    /\ shrineColor' = 65280 /\ ~shrineWireframe'
                    /\ crystalInScene' /\ crystalPos' = <<1650, 400, 2000>>
                    /\ ~hasCrystal'
            [] currentTask' = 3 ->
                    /\ uiText' = "Task 3: Deliver the Crystal to the Elder (Grey Capsule) at the Village (Green Platform)"
                    /\ hasCrystal' /\ ~crystalInScene'
                    /\ elderColor' = 8421504
            [] currentTask' = 4 ->
                    /\ uiText' = "All Tasks Complete! The tribe is safe for now."
                    /\ ~hasCrystal' /\ elderColor' = 10526880
            [] OTHER -> FALSE]_vars

\* C13 witness: the check that collected the crystal has written the task 3
\* text.
C13_Witness ==
    /\ pc = "render" /\ prevTask = 2 /\ currentTask = 3 /\ ~threw
    /\ uiText = "Task 3: Deliver the Crystal to the Elder (Grey Capsule) at the Village (Green Platform)"

\* C14: applying the effects of one transition a second time, right after
\* the first, changes nothing: not the task state, the inventory, the objects'
\* visibility, position, orientation or appearance, nor the text.
C14_EffectsIdempotent ==
    [][(pc = "dispatch" /\ prevTask \in 1..3 /\ prevTask' = prevTask) =>
          /\ UNCHANGED currentTask
          /\ UNCHANGED world
          /\ UNCHANGED crystalRotY]_vars

\* C14 witness: the effects of 1 -> 2 have been applied to a world whose
\* shrine was still a yellow wireframe, and can be applied again.
C14_Witness ==
    /\ pc = "dispatch" /\ prevTask = 1 /\ currentTask = 2
    /\ shrineColor = 65280 /\ ~shrineWireframe
    /\ crystalInScene /\ crystalPos = <<1650, 400, 2000>>
    /\ uiText = "Task 2: Collect the Sacred Crystal (Blue Crystal)"

\* C15: a frame is the player update, then one check on the updated
\* position, then the render of what the check left; so no rendered frame
\* shows a player within the guard of a task that the frame's check found
\* and left unchanged.
C15_CheckBetweenUpdateAndRender ==
    /\ [](pc = "render" /\ prevTask = currentTask => ~TableGuard)
    /\ [][/\ (pc' = "check" => pc \in {"animate", "idle"})
          /\ (pc = "check" => pc' = "render" /\ playerPos' = playerPos)
          /\ (pc' = "render" => pc = "check")
          /\ (pc = "render" =>
                pc' = "idle" /\ UNCHANGED <<currentTask, world, playerPos>>)]_vars

\* C15 witness: the frame in which the player came within 2.99 of the shrine
\* is about to be rendered with the crystal in the scene.
C15_Witness ==
    /\ pc = "render" /\ prevTask = 1 /\ currentTask = 2
    /\ playerPos = <<1799, 500, 2000>> /\ crystalInScene

\* C16: only a check changes currentTask or hasCrystal: the load callbacks,
\* key down and up, the resize, the player's movement and the render leave
\* both unchanged.
C16_OnlyTheCheckMutatesTaskState ==
    [][pc # "check" => UNCHANGED <<currentTask, hasCrystal>>]_vars

\* C16 witness: with the crystal in the inventory, the asset has loaded, the
\* load callback has run and a key is down, between two frames.
C16_Witness ==
    /\ pc = "idle" /\ currentTask = 3 /\ hasCrystal
    /\ loaded /\ keyboardState # {} /\ playerPos = <<1650, 400, 2000>>

\* C17: the displayed text is 'Loading assets...' only while currentTask is
\* 1 and the load callback has not run, and otherwise the fixed string of
\* the current task; the two fallback strings are never displayed.
C17_TextFollowsTask ==
    /\ \/ /\ uiText = "Loading assets..."
          /\ currentTask = 1
          /\ ~loaded
       \/ /\ currentTask = 1
          /\ uiText = "Task 1: Fly to the Ancient Shrine (Yellow Orb)"
       \/ /\ currentTask = 2
          /\ uiText = "Task 2: Collect the Sacred Crystal (Blue Crystal)"
       \/ /\ currentTask = 3
          /\ uiText = "Task 3: Deliver the Crystal to the Elder (Grey Capsule) at the Village (Green Platform)"
       \/ /\ currentTask = 4
          /\ uiText = "All Tasks Complete! The tribe is safe for now."
    /\ uiText # "Task 3: Find the Elder... (Missing Crystal)"
    /\ uiText # "No current task."

\* C17 witness: the load callback has run with the game already in task 2.
C17_Witness ==
    /\ pc = "idle" /\ loaded /\ currentTask = 2 /\ prevTask = 1
    /\ uiText = "Task 2: Collect the Sacred Crystal (Blue Crystal)"

\* The player is within the completion radius of the current task's target.
NearTarget ==
    CASE currentTask = 1 -> Dist2(playerPos, ShrinePos) < 300 * 300
      [] currentTask = 2 -> Dist2(playerPos, crystalPos) < 300 * 300
      [] currentTask = 3 -> Dist2(playerPos, ElderPos) < 300 * 300
      [] OTHER -> FALSE

\* Some player position satisfies the guard of the current task.
GuardSatisfiable ==
    CASE currentTask = 1 ->
            \E q \in PlayerPositions : Dist2(q, ShrinePos) < 300 * 300
      [] currentTask = 2 ->
            /\ crystalObject /\ crystalInScene
            /\ \E q \in PlayerPositions : Dist2(q, crystalPos) < 300 * 300
      [] currentTask = 3 ->
            /\ hasCrystal
            /\ \E q \in PlayerPositions : Dist2(q, ElderPos) < 300 * 300
      [] OTHER -> TRUE

\* C18: in every reachable state of tasks 1, 2 and 3 some player position
\* satisfies the current guard; and if, whenever the game is in one of these
\* tasks, a check eventually starts with the player within the radius of the
\* current target, then currentTask eventually is 4.
C18_NeverStuck ==
    /\ [](currentTask \in 1..3 => GuardSatisfiable)
    /\ ([](currentTask \in 1..3 => <>(pc = "check" /\ NearTarget))
           => <>(currentTask = 4))

\* C18 witness: the crystal has been delivered from 2.99 of the Elder.
C18_Witness ==
    /\ currentTask = 4 /\ prevTask = 3 /\ pc = "render"
    /\ playerPos = <<-1500, 474, -1200>>

\* C19: with the player at the shrine's position, a check in task 1 goes
\* to task 2 with the crystal in the scene, never to task 3; and the check
\* of the next frame, the player still there, goes to task 3 with hasCrystal
\* and the crystal out of the scene after exactly one spin, that is, one
\* rendered frame with the crystal in it.
C19_ShrineThenCrystal ==
    [][/\ (pc = "check" /\ currentTask = 1 /\ playerPos = <<1500, 500, 2000>> =>
             currentTask' = 2 /\ crystalInScene' /\ ~hasCrystal')
       /\ (currentTask = 1 => currentTask' # 3)
       /\ (pc = "check" /\ currentTask = 2 /\ prevTask = 1
               /\ playerPos = <<1500, 500, 2000>> =>
             /\ currentTask' = 3
             /\ hasCrystal'
             /\ ~crystalInScene'
             /\ crystalRotY' = 2)]_vars

\* C19 witness: the player has stayed at the shrine, no key down, and the
\* second of the two checks has collected the crystal.
C19_Witness ==
    /\ pc = "render" /\ prevTask = 2 /\ currentTask = 3 /\ hasCrystal
    /\ playerPos = <<1500, 500, 2000>> /\ crystalRotY = 2

=============================================================================
